---- MODULE Spec2Model ----
(***************************************************************************)
(* Model of Python/rpicamera/controller.py: the ZmqThread serving loop     *)
(* (one REP socket, one request at a time) and the Controller it drives,   *)
(* which owns an optional camera (the Device).                             *)
(*                                                                         *)
(* Conventions.  A Python value that may be None is a sequence of length   *)
(* 0 (None) or 1 (the value).  A wire token is the sequence of its pieces  *)
(* between '=' signs, so that p.split('=') is the token itself.  A float   *)
(* is an integer count of 1e-7 units; NaN is a value of its own whose      *)
(* comparisons are all false, as in Python.  The code is Python 2 (a wire   *)
(* message is a str, compared with the verbs as written).                  *)
(*                                                                         *)
(* An operation (a request served by run(), or a Controller method called  *)
(* by the owning program) is one step; lastOp records what the last one    *)
(* was, what it found, and what it did, in program order.                  *)
(*                                                                         *)
(* Three specifications share the state: Spec (the serving thread, its     *)
(* clients and the Device), StopSpec (the same, with stop_running() called *)
(* from another thread at any moment) and CallSpec (the Controller's       *)
(* methods called directly by the owning program).                         *)
(***************************************************************************)
EXTENDS Integers, Sequences, FiniteSets, TLC

\* Number of operations (requests and direct Controller calls) explored.
MaxOps == 3

None == <<>>
Some(v) == <<v>>

\* ------------------------------------------------------------------------
\* Python built-ins used by the code
\* ------------------------------------------------------------------------

NaN == 0 - 2000000000

IntTokens == {"0", "1", "2", "3", "640", "480"}

\* int(s) for the tokens that are integer literals; anything else raises.
IntOf(s) ==
  CASE s = "0" -> 0
    [] s = "1" -> 1
    [] s = "2" -> 2
    [] s = "3" -> 3
    [] s = "640" -> 640
    [] s = "480" -> 480

FloatTokens == IntTokens \cup {"0.5", "1.5", "-0.1", "1.2345678", "2.0000004", "30", "nan"}

\* float(s) in units of 1e-7; float("nan") is NaN; anything else raises.
FloatOf(s) ==
  CASE s \in IntTokens -> IntOf(s) * 10000000
    [] s = "0.5" -> 5000000
    [] s = "1.5" -> 15000000
    [] s = "-0.1" -> 0 - 1000000
    [] s = "1.2345678" -> 12345678
    [] s = "2.0000004" -> 20000004
    [] s = "30" -> 300000000
    [] s = "nan" -> NaN

\* Python's <, >, >=, <= on floats: false whenever an operand is NaN.
FLt(a, b) == a # NaN /\ b # NaN /\ a < b
FGt(a, b) == a # NaN /\ b # NaN /\ a > b
FGe(a, b) == a # NaN /\ b # NaN /\ a >= b
FLe(a, b) == a # NaN /\ b # NaN /\ a <= b

\* min(xs) / max(xs): keep the first item unless a later one compares
\* strictly smaller / larger (xs non-empty).
RECURSIVE PyMinFrom(_, _, _)
PyMinFrom(xs, i, m) ==
  IF i > Len(xs) THEN m
  ELSE PyMinFrom(xs, i + 1, IF FLt(xs[i], m) THEN xs[i] ELSE m)
PyMin(xs) == PyMinFrom(xs, 2, xs[1])

RECURSIVE PyMaxFrom(_, _, _)
PyMaxFrom(xs, i, m) ==
  IF i > Len(xs) THEN m
  ELSE PyMaxFrom(xs, i + 1, IF FGt(xs[i], m) THEN xs[i] ELSE m)
PyMax(xs) == PyMaxFrom(xs, 2, xs[1])

\* "{:.6f}".format(v): v rounded to a count of 1e-6 units.
Fmt6(v) ==
  IF v = NaN THEN NaN
  ELSE IF v >= 0 THEN (v + 5) \div 10 ELSE 0 - ((5 - v) \div 10)

\* path.split(op.sep) for the paths the clients send.
PathSplit(p) ==
  CASE p = "/data/20240101_1200" -> <<"", "data", "20240101_1200">>
    [] p = "run2" -> <<"run2">>

\* op.join(a, b) for a relative b.
PathJoin(a, b) == a \o "/" \o b

\* ------------------------------------------------------------------------
\* The Device (camera.CameraGPIO): a store of its attributes and flags
\* ------------------------------------------------------------------------

Resolution(w, h) == [width |-> w, height |-> h]

NewCamera(previewing) ==
  [recording |-> FALSE, previewing |-> previewing, closed |-> FALSE,
   framerate |-> 300000000, resolution |-> Resolution(1920, 1080),
   vflip |-> FALSE, hflip |-> FALSE,
   zoom |-> <<0, 0, 10000000, 10000000>>,
   awb_mode |-> "auto", awb_gains |-> <<10000000, 10000000>>,
   exposure_mode |-> "auto",
   sync_mode |-> FALSE, wait_for_trigger |-> FALSE, trigger_timeout |-> 0,
   brightness |-> 50]

Camera_start_recording(c) == [c EXCEPT !.recording = TRUE]
Camera_stop_recording(c) == [c EXCEPT !.recording = FALSE]
Camera_stop_preview(c) == [c EXCEPT !.previewing = FALSE]

\* Gains the Device may settle on by itself while awb_mode is 'auto'.
AutoGains == {<<10000000, 10000000>>, <<17000000, 13000000>>}

\* ------------------------------------------------------------------------
\* Controller
\* ------------------------------------------------------------------------

data_path == "/rec"

\* The outcome of a call: the Controller and file system after it (w), the
\* value returned (None when it returns nothing), the exception that left it
\* ("" when it returned), and the Device and file-system calls it made.
Ret(w, ret, ev) == [w |-> w, ret |-> ret, exc |-> "", ev |-> ev]
Raise(w, exc, ev) == [w |-> w, ret |-> None, exc |-> exc, ev |-> ev]

Controller_init(camera) == [camera |-> camera, closed |-> FALSE, dirs |-> {}, files |-> {}]

get_framerate(w) ==
  IF w.camera # None THEN Ret(w, Some(w.camera[1].framerate), <<>>) ELSE Ret(w, None, <<>>)

\* (mutant) The framerate setter without the test of camera.recording.
set_framerate_always(w, fps) ==
  IF w.camera # None
  THEN Ret([w EXCEPT !.camera[1].framerate = fps], None, <<"camera.framerate=">>)
  ELSE Ret(w, None, <<>>)

set_framerate(w, fps) ==
  IF w.camera # None /\ ~w.camera[1].recording
  THEN Ret([w EXCEPT !.camera[1].framerate = fps], None, <<"camera.framerate=">>)
  ELSE Ret(w, None, <<>>)

get_resolution(w) ==
  IF w.camera # None THEN Ret(w, Some(w.camera[1].resolution), <<>>) ELSE Ret(w, None, <<>>)

set_resolution(w, xy) ==
  IF w.camera # None /\ ~w.camera[1].recording
  THEN Ret([w EXCEPT !.camera[1].resolution = Resolution(xy[1], xy[2])], None,
           <<"camera.resolution=">>)
  ELSE Ret(w, None, <<>>)

get_vflip(w) ==
  IF w.camera # None THEN Ret(w, Some(w.camera[1].vflip), <<>>) ELSE Ret(w, None, <<>>)

set_vflip(w, status) ==
  IF w.camera # None /\ ~w.camera[1].recording
  THEN Ret([w EXCEPT !.camera[1].vflip = status], None, <<"camera.vflip=">>)
  ELSE Ret(w, None, <<>>)

get_hflip(w) ==
  IF w.camera # None THEN Ret(w, Some(w.camera[1].hflip), <<>>) ELSE Ret(w, None, <<>>)

set_hflip(w, status) ==
  IF w.camera # None /\ ~w.camera[1].recording
  THEN Ret([w EXCEPT !.camera[1].hflip = status], None, <<"camera.hflip=">>)
  ELSE Ret(w, None, <<>>)

get_zoom(w) ==
  IF w.camera # None THEN Ret(w, Some(w.camera[1].zoom), <<>>) ELSE Ret(w, None, <<>>)

set_zoom(w, coords) ==
  IF w.camera # None
  THEN IF Len(coords) = 4 /\ FGe(PyMin(coords), 0) /\ FLe(PyMax(coords), 10000000)
       THEN Ret([w EXCEPT !.camera[1].zoom = coords], None, <<"camera.zoom=">>)
       ELSE Ret(w, None, <<>>)
  ELSE Ret(w, None, <<>>)

is_recording(w) == w.camera # None /\ w.camera[1].recording

\* (mutant) cleanup that marks the Controller closed and keeps the camera.
cleanup_keeps_camera(w) ==
  IF w.camera # None
  THEN LET c0 == w.camera[1]
           c1 == IF c0.recording THEN Camera_stop_recording(c0) ELSE c0
           e1 == IF c0.recording THEN <<"camera.stop_recording">> ELSE <<>>
           c2 == IF c1.previewing THEN Camera_stop_preview(c1) ELSE c1
           e2 == IF c1.previewing THEN <<"camera.stop_preview">> ELSE <<>>
           e3 == IF ~c2.closed THEN <<"camera.close">> ELSE <<>>
       IN Ret([w EXCEPT !.camera = Some([c2 EXCEPT !.closed = TRUE]), !.closed = TRUE],
              None, e1 \o e2 \o e3)
  ELSE Ret([w EXCEPT !.closed = TRUE], None, <<>>)

\* (mutant) cleanup that stops the preview before the recording.
cleanup_preview_first(w) ==
  IF w.camera # None
  THEN LET c0 == w.camera[1]
           c1 == IF c0.previewing THEN Camera_stop_preview(c0) ELSE c0
           e1 == IF c0.previewing THEN <<"camera.stop_preview">> ELSE <<>>
           c2 == IF c1.recording THEN Camera_stop_recording(c1) ELSE c1
           e2 == IF c1.recording THEN <<"camera.stop_recording">> ELSE <<>>
           e3 == IF ~c2.closed THEN <<"camera.close">> ELSE <<>>
       IN Ret([w EXCEPT !.camera = None, !.closed = TRUE], None, e1 \o e2 \o e3)
  ELSE Ret([w EXCEPT !.closed = TRUE], None, <<>>)

cleanup(w) ==
  IF w.camera # None
  THEN LET c0 == w.camera[1]
           c1 == IF c0.recording THEN Camera_stop_recording(c0) ELSE c0
           e1 == IF c0.recording THEN <<"camera.stop_recording">> ELSE <<>>
           c2 == IF c1.previewing THEN Camera_stop_preview(c1) ELSE c1
           e2 == IF c1.previewing THEN <<"camera.stop_preview">> ELSE <<>>
           e3 == IF ~c2.closed THEN <<"camera.close">> ELSE <<>>
       IN Ret([w EXCEPT !.camera = None, !.closed = TRUE], None, e1 \o e2 \o e3)
  ELSE Ret([w EXCEPT !.closed = TRUE], None, <<>>)

\* (mutant) start_preview without the test of camera: with no camera the
\* first attribute write raises.
start_preview_unchecked(w, awb_gains, fix_awb_gains, fix_exposure_speed) ==
  IF w.camera # None
  THEN Raise([w EXCEPT !.camera[1].awb_mode = IF awb_gains # None THEN "off" ELSE "auto",
                       !.camera[1].exposure_mode = "auto"],
             "NameError", <<"camera.awb_mode=", "camera.exposure_mode=">>)
  ELSE Raise(w, "AttributeError", <<>>)

\* start_preview sets the white-balance and exposure modes and then evaluates
\* the name kwargs, which the method does not bind: NameError, before the
\* Device preview is started.
start_preview(w, awb_gains, fix_awb_gains, fix_exposure_speed) ==
  IF w.camera # None
  THEN LET c0 == w.camera[1]
           c1 == IF awb_gains # None
                 THEN [c0 EXCEPT !.awb_mode = "off", !.awb_gains = awb_gains[1]]
                 ELSE [c0 EXCEPT !.awb_mode = "auto"]
           e1 == IF awb_gains # None
                 THEN <<"camera.awb_mode=", "camera.awb_gains=">>
                 ELSE <<"camera.awb_mode=">>
           c2 == [c1 EXCEPT !.exposure_mode = "auto"]
       IN Raise([w EXCEPT !.camera = Some(c2)], "NameError",
                e1 \o <<"camera.exposure_mode=">>)
  ELSE Ret(w, None, <<>>)

\* (mutant) reset_gains that leaves a recording running.
reset_gains_keeps_recording(w) ==
  IF w.camera # None
  THEN LET c1 == w.camera[1]
           was_previewing == c1.previewing
           c2 == IF c1.previewing THEN Camera_stop_preview(c1) ELSE c1
           e2 == IF c1.previewing THEN <<"camera.stop_preview", "sleep">> ELSE <<>>
           w2 == [w EXCEPT !.camera = Some(c2)]
       IN IF was_previewing
          THEN LET r == start_preview(w2, None, TRUE, TRUE)
               IN [r EXCEPT !.ev = e2 \o r.ev]
          ELSE Ret(w2, None, e2)
  ELSE Ret(w, None, <<>>)

reset_gains(w) ==
  IF w.camera # None
  THEN LET c0 == w.camera[1]
           c1 == IF c0.recording THEN Camera_stop_recording(c0) ELSE c0
           e1 == IF c0.recording THEN <<"camera.stop_recording">> ELSE <<>>
           was_previewing == c1.previewing
           c2 == IF c1.previewing THEN Camera_stop_preview(c1) ELSE c1
           e2 == IF c1.previewing THEN <<"camera.stop_preview", "sleep">> ELSE <<>>
           w2 == [w EXCEPT !.camera = Some(c2)]
       IN IF was_previewing
          THEN LET r == start_preview(w2, None, TRUE, TRUE)
               IN [r EXCEPT !.ev = e1 \o e2 \o r.ev]
          ELSE Ret(w2, None, e1 \o e2)
  ELSE Ret(w, None, <<>>)

get_gains(w) ==
  IF w.camera # None THEN Ret(w, Some(w.camera[1].awb_gains), <<>>) ELSE Ret(w, None, <<>>)

\* (mutant) set_gains that leaves the white-balance mode as it is.
set_gains_keeps_mode(w, gains) ==
  IF w.camera # None
  THEN Ret([w EXCEPT !.camera[1].awb_gains = gains], None, <<"camera.awb_gains=">>)
  ELSE Ret(w, None, <<>>)

set_gains(w, gains) ==
  IF w.camera # None
  THEN Ret([w EXCEPT !.camera[1].awb_mode = "off", !.camera[1].awb_gains = gains], None,
           <<"camera.awb_mode=", "camera.awb_gains=">>)
  ELSE Ret(w, None, <<>>)

\* (mutant) The guard without the test of camera.recording.
may_start_recording_any(w) == w.camera # None

\* The guard of start_recording.
may_start_recording(w) == w.camera # None /\ ~w.camera[1].recording

\* (mutant) The name with the two ids in each other's place.
rec_name_swapped(rec_datetime, experiment, recording) ==
  rec_datetime \o "_experiment_" \o ToString(recording)
    \o "_recording_" \o ToString(experiment)

\* '{}_experiment_{}_recording_{}'.format(rec_datetime, experiment, recording)
rec_name(rec_datetime, experiment, recording) ==
  rec_datetime \o "_experiment_" \o ToString(experiment)
    \o "_recording_" \o ToString(recording)

\* io: how the file system answers this call: "ok", "makedirs_fails" or
\* "open_fails".
start_recording(w, filename, experiment, recording, path, io) ==
  IF may_start_recording(w)
  THEN IF path = None
       THEN Raise(w, "AttributeError", <<>>)
       ELSE
       LET c == w.camera[1]
           parts == PathSplit(path[1])
           rec_datetime == parts[Len(parts)]
           name == rec_name(rec_datetime, experiment, recording)
           rec_path == PathJoin(data_path, name)
           exists == rec_path \in w.dirs
           file_base == PathJoin(rec_path, filename)
           video_path == file_base \o ".h264"
           param_file == file_base \o "_params.json"
           params == [rec_path |-> rec_path, experiment |-> experiment,
                      recording |-> recording, video_path |-> video_path,
                      width |-> c.resolution.width, height |-> c.resolution.height,
                      framerate |-> c.framerate, sync_mode |-> c.sync_mode,
                      wait_for_trigger |-> c.wait_for_trigger,
                      trigger_timeout |-> c.trigger_timeout,
                      awb_mode |-> c.awb_mode, awb_gains |-> c.awb_gains,
                      brightness |-> c.brightness, zoom |-> c.zoom,
                      vflip |-> c.vflip, hflip |-> c.hflip]
           e1 == IF exists THEN <<>> ELSE <<"os.makedirs">>
           w1 == [w EXCEPT !.dirs = @ \cup {rec_path}]
           w2 == [w1 EXCEPT !.files = {f \in @ : f[1] # param_file}
                                        \cup {<<param_file, params>>}]
           w3 == [w2 EXCEPT !.camera[1] = Camera_start_recording(c)]
       IN IF ~exists /\ io = "makedirs_fails"
          THEN Raise(w, "OSError", e1)
          ELSE IF io = "open_fails"
          THEN Raise(w1, "IOError", e1 \o <<"open">>)
          ELSE Ret(w3, Some(rec_path),
                   e1 \o <<"open", "json.dump", "camera.start_recording">>)
  ELSE Ret(w, None, <<>>)

\* (mutant) stop_recording that stops whatever the Device is doing.
stop_recording_unguarded(w) ==
  IF w.camera # None
  THEN Ret([w EXCEPT !.camera[1] = Camera_stop_recording(@)], None,
           <<"camera.stop_recording">>)
  ELSE Ret(w, None, <<>>)

stop_recording(w) ==
  IF is_recording(w)
  THEN Ret([w EXCEPT !.camera[1] = Camera_stop_recording(@)], None,
           <<"camera.stop_recording">>)
  ELSE Ret(w, None, <<>>)

close(w) == cleanup(w)

\* ------------------------------------------------------------------------
\* The callbacks handed to ZmqThread: each verb calls the Controller
\* operation of the same name
\* ------------------------------------------------------------------------

start_callback(w, experiment, recording, path, io) ==
  start_recording(w, "rpicamera_video", experiment, recording, path, io)

parameter_callback(w, name, value) ==
  CASE name = "Stop" -> stop_recording(w)
    [] name = "Close" -> close(w)
    [] name = "Resolution" -> set_resolution(w, value)
    [] name = "Framerate" -> set_framerate(w, value)
    [] name = "ResetGains" -> reset_gains(w)
    [] name = "GetGains" -> get_gains(w)
    [] name = "SetGains" -> set_gains(w, value)
    [] name = "VFlip" -> set_vflip(w, value)
    [] name = "HFlip" -> set_hflip(w, value)
    [] name = "Zoom" -> set_zoom(w, value)

\* ------------------------------------------------------------------------
\* ZmqThread.run: one pass of the loop body, from socket.recv() on
\* ------------------------------------------------------------------------

Reply(text, vals) == [text |-> text, vals |-> vals]

\* What one pass did: the replies it sent, the exception that left run()
\* ("" when none did), whether it left the loop by break, and its events in
\* program order.
Served(w, sent, exc, ev, brk) == [w |-> w, sent |-> sent, exc |-> exc, ev |-> ev, brk |-> brk]

\* An exception raised while parsing, before any callback or send.
ParseError(w, exc) == Served(w, <<>>, exc, <<"recv">>, FALSE)

\* callback first, then socket.send(reply(r)).
CallThenSend(r, reply, brk) ==
  IF r.exc # ""
  THEN Served(r.w, <<>>, r.exc, <<"recv", "callback">> \o r.ev, FALSE)
  ELSE Served(r.w, <<reply>>, "", <<"recv", "callback">> \o r.ev \o <<"return", "send">>, brk)

\* socket.send(reply) first, then the callback.
SendThenCall(r, reply) ==
  IF r.exc # ""
  THEN Served(r.w, <<reply>>, r.exc, <<"recv", "send", "callback">> \o r.ev, FALSE)
  ELSE Served(r.w, <<reply>>, "", <<"recv", "send", "callback">> \o r.ev \o <<"return">>, FALSE)

\* int(parts[k]) / float(parts[k]) (k counted from 0): the exception it
\* raises, "" when it returns.
IntExc(parts, k) ==
  IF Len(parts) < k + 1 THEN "IndexError"
  ELSE IF Len(parts[k + 1]) = 1 /\ parts[k + 1][1] \in IntTokens THEN "" ELSE "ValueError"

FloatExc(parts, k) ==
  IF Len(parts) < k + 1 THEN "IndexError"
  ELSE IF Len(parts[k + 1]) = 1 /\ parts[k + 1][1] \in FloatTokens THEN "" ELSE "ValueError"

IntArg(parts, k) == IntOf(parts[k + 1][1])
FloatArg(parts, k) == FloatOf(parts[k + 1][1])

\* The for loop of the Start branch from parts[i] on (i counted from 1).
RECURSIVE StartArgs(_, _, _)
StartArgs(parts, i, acc) ==
  IF i > Len(parts) THEN acc
  ELSE LET p == parts[i] IN
       IF Len(p) # 2 THEN [acc EXCEPT !.exc = "ValueError"]
       ELSE LET name == p[1]
                value == p[2]
            IN IF name \in {"Experiment", "Recording"} /\ value \notin IntTokens
               THEN [acc EXCEPT !.exc = "ValueError"]
               ELSE StartArgs(parts, i + 1,
                      IF name = "Experiment" THEN [acc EXCEPT !.experiment = IntOf(value)]
                      ELSE IF name = "Recording" THEN [acc EXCEPT !.recording = IntOf(value)]
                      ELSE IF name = "Path" THEN [acc EXCEPT !.path = Some(value)]
                      ELSE acc)

\* [float(p) for p in parts[1:]]
ZoomExc(parts) ==
  IF \E k \in 2..Len(parts) : FloatExc(parts, k - 1) # "" THEN "ValueError" ELSE ""
ZoomArgs(parts) == [k \in 1..(Len(parts) - 1) |-> FloatArg(parts, k)]

\* The branches of the if/elif chain, one per verb.
run_Start(w, parts, io) ==
  LET a == StartArgs(parts, 2, [experiment |-> 0, recording |-> 1, path |-> None, exc |-> ""])
  IN IF a.exc # "" THEN ParseError(w, a.exc)
     ELSE LET r == start_callback(w, a.experiment, a.recording, a.path, io)
          IN CallThenSend(r, Reply(IF r.ret = None THEN "" ELSE r.ret[1], <<>>), FALSE)

run_Stop(w, parts) ==
  CallThenSend(parameter_callback(w, "Stop", None), Reply("Stopped", <<>>), FALSE)

\* (mutant) The Close branch without its break.
run_Close_no_break(w, parts) ==
  CallThenSend(parameter_callback(w, "Close", None), Reply("Closing", <<>>), FALSE)

run_Close(w, parts) ==
  CallThenSend(parameter_callback(w, "Close", None), Reply("Closing", <<>>), TRUE)

run_Resolution(w, parts) ==
  IF IntExc(parts, 1) # "" THEN ParseError(w, IntExc(parts, 1))
  ELSE IF IntExc(parts, 2) # "" THEN ParseError(w, IntExc(parts, 2))
  ELSE CallThenSend(parameter_callback(w, "Resolution", <<IntArg(parts, 1), IntArg(parts, 2)>>),
                    Reply("Done", <<>>), FALSE)

run_Framerate(w, parts) ==
  IF FloatExc(parts, 1) # "" THEN ParseError(w, FloatExc(parts, 1))
  ELSE CallThenSend(parameter_callback(w, "Framerate", FloatArg(parts, 1)),
                    Reply("Done", <<>>), FALSE)

\* (mutant) The ResetGains branch written like the others: callback, then send.
run_ResetGains_call_first(w, parts) ==
  CallThenSend(parameter_callback(w, "ResetGains", None),
               Reply("Done (but wait at least 2 seconds)", <<>>), FALSE)

run_ResetGains(w, parts) ==
  SendThenCall(parameter_callback(w, "ResetGains", None),
               Reply("Done (but wait at least 2 seconds)", <<>>))

\* gains[0] on None is a TypeError, raised after the callback has returned.
run_GetGains(w, parts) ==
  LET r == parameter_callback(w, "GetGains", None)
      gains == r.ret
  IN IF r.exc = "" /\ gains = None
     THEN Served(r.w, <<>>, "TypeError", <<"recv", "callback">> \o r.ev \o <<"return">>, FALSE)
     ELSE CallThenSend(r, Reply("{:.6f} {:.6f}", <<Fmt6(gains[1][1]), Fmt6(gains[1][2])>>), FALSE)

run_SetGains(w, parts) ==
  IF FloatExc(parts, 1) # "" THEN ParseError(w, FloatExc(parts, 1))
  ELSE IF FloatExc(parts, 2) # "" THEN ParseError(w, FloatExc(parts, 2))
  ELSE CallThenSend(parameter_callback(w, "SetGains", <<FloatArg(parts, 1), FloatArg(parts, 2)>>),
                    Reply("Done", <<>>), FALSE)

run_VFlip(w, parts) ==
  IF IntExc(parts, 1) # "" THEN ParseError(w, IntExc(parts, 1))
  ELSE CallThenSend(parameter_callback(w, "VFlip", IntArg(parts, 1) > 0),
                    Reply("Done", <<>>), FALSE)

run_HFlip(w, parts) ==
  IF IntExc(parts, 1) # "" THEN ParseError(w, IntExc(parts, 1))
  ELSE CallThenSend(parameter_callback(w, "HFlip", IntArg(parts, 1) > 0),
                    Reply("Done", <<>>), FALSE)

run_Zoom(w, parts) ==
  IF ZoomExc(parts) # "" THEN ParseError(w, ZoomExc(parts))
  ELSE CallThenSend(parameter_callback(w, "Zoom", ZoomArgs(parts)),
                    Reply("Done", <<>>), FALSE)

run_else(w, parts) ==
  Served(w, <<Reply("Not handled", <<>>)>>, "", <<"recv", "send">>, FALSE)

\* msg.split(), cmd = parts[0] (IndexError on an empty message), and the chain.
run_body(w, msg, io) ==
  LET parts == msg IN
  IF Len(parts) = 0 THEN ParseError(w, "IndexError")
  ELSE
  LET cmd == parts[1] IN
  IF cmd = <<"Start">> THEN run_Start(w, parts, io)
  ELSE IF cmd = <<"Stop">> THEN run_Stop(w, parts)
  ELSE IF cmd = <<"Close">> THEN run_Close(w, parts)
  ELSE IF cmd = <<"Resolution">> THEN run_Resolution(w, parts)
  ELSE IF cmd = <<"Framerate">> THEN run_Framerate(w, parts)
  ELSE IF cmd = <<"ResetGains">> THEN run_ResetGains(w, parts)
  ELSE IF cmd = <<"GetGains">> THEN run_GetGains(w, parts)
  ELSE IF cmd = <<"SetGains">> THEN run_SetGains(w, parts)
  ELSE IF cmd = <<"VFlip">> THEN run_VFlip(w, parts)
  ELSE IF cmd = <<"HFlip">> THEN run_HFlip(w, parts)
  ELSE IF cmd = <<"Zoom">> THEN run_Zoom(w, parts)
  ELSE run_else(w, parts)

\* ------------------------------------------------------------------------
\* The requests the clients send
\* ------------------------------------------------------------------------

Tok(s) == <<s>>
KV(k, v) == <<k, v>>

StartRequests ==
  { <<Tok("Start"), KV("Experiment", "2"), KV("Recording", "3"), KV("Path", "/data/20240101_1200")>>,
    <<Tok("Start"), KV("Path", "run2")>>,
    <<Tok("Start")>>,
    <<Tok("Start"), Tok("Path")>>,
    <<Tok("Start"), KV("Experiment", "x"), KV("Path", "run2")>> }

OtherRequests ==
  { <<Tok("Stop")>>,
    <<Tok("Close")>>,
    <<Tok("Resolution"), Tok("640"), Tok("480")>>,
    <<Tok("Resolution"), Tok("640")>>,
    <<Tok("Framerate"), Tok("1.5")>>,
    <<Tok("Framerate"), Tok("fast")>>,
    <<Tok("ResetGains")>>,
    <<Tok("GetGains")>>,
    <<Tok("SetGains"), Tok("1.5"), Tok("1.2345678")>>,
    <<Tok("SetGains"), Tok("1.5")>>,
    <<Tok("VFlip"), Tok("1")>>,
    <<Tok("VFlip"), Tok("on")>>,
    <<Tok("HFlip"), Tok("1")>>,
    <<Tok("HFlip")>>,
    <<Tok("Zoom"), Tok("0"), Tok("0.5"), Tok("1"), Tok("0.5")>>,
    <<Tok("Zoom"), Tok("0"), Tok("0"), Tok("1.5"), Tok("1")>>,
    <<Tok("Zoom"), Tok("-0.1"), Tok("0"), Tok("1"), Tok("1")>>,
    <<Tok("Zoom"), Tok("0.5"), Tok("nan"), Tok("0.5"), Tok("0.5")>>,
    <<Tok("Zoom"), Tok("0"), Tok("0"), Tok("1")>>,
    <<Tok("Zoom"), Tok("0"), Tok("0"), Tok("1"), Tok("wide")>>,
    <<Tok("Hello")>>,
    <<>> }

Requests == StartRequests \cup OtherRequests

Verb(msg) == IF Len(msg) = 0 THEN "" ELSE IF Len(msg[1]) = 1 THEN msg[1][1] ELSE "="

Verbs == {"Start", "Stop", "Close", "Resolution", "Framerate", "ResetGains", "GetGains",
          "SetGains", "VFlip", "HFlip", "Zoom"}

\* ------------------------------------------------------------------------
\* State
\* ------------------------------------------------------------------------

VARIABLES
  camera,      \* Controller.camera: None or the Device
  closed,      \* Controller.closed
  dirs,        \* the recording directories that exist
  files,       \* the parameter files on disk: <<path, contents>>
  is_running,  \* ZmqThread.is_running
  pc,          \* where run() is: "init", "loop" (at the test of is_running),
               \* "recv" (in socket.recv), "exit" (returned), "dead" (left by an exception)
  nOps,        \* operations performed so far
  nRecv,       \* requests received by run()
  nSent,       \* replies sent by run()
  stop_returned, \* None until stop_running() first returns; then where run() was
               \* at that moment and how many requests it had received
  lastOp       \* the operation performed last: who asked, its arguments, how the
               \* file system answered it (io), what it found (pre) and what it did

vars == <<camera, closed, dirs, files, is_running, pc, nOps, nRecv, nSent, stop_returned, lastOp>>

World == [camera |-> camera, closed |-> closed, dirs |-> dirs, files |-> files]

\* What an operation found when it was called.
Pre(w) ==
  [available |-> w.camera # None,
   recording |-> w.camera # None /\ w.camera[1].recording,
   previewing |-> w.camera # None /\ w.camera[1].previewing]

NoOp == [who |-> "none", name |-> "", args |-> <<>>, io |-> "ok",
         pre |-> Pre(Controller_init(None)),
         ret |-> None, sent |-> <<>>, exc |-> "", ev |-> <<>>]

Init ==
  /\ \E c \in {None, Some(NewCamera(FALSE)), Some(NewCamera(TRUE))} :
       /\ camera = Controller_init(c).camera
       /\ closed = Controller_init(c).closed
       /\ dirs = Controller_init(c).dirs
       /\ files = Controller_init(c).files
  /\ is_running = FALSE
  /\ pc = "init"
  /\ nOps = 0
  /\ nRecv = 0
  /\ nSent = 0
  /\ stop_returned = None
  /\ lastOp = NoOp

SetWorld(w) ==
  /\ camera' = w.camera
  /\ closed' = w.closed
  /\ dirs' = w.dirs
  /\ files' = w.files

\* ------------------------------------------------------------------------
\* ZmqThread
\* ------------------------------------------------------------------------

\* stop_running(), from another thread.
StopRunning ==
  /\ is_running' = FALSE
  /\ stop_returned' = IF stop_returned = None THEN Some([pc |-> pc, nRecv |-> nRecv])
                      ELSE stop_returned
  /\ UNCHANGED <<camera, closed, dirs, files, pc, nOps, nRecv, nSent, lastOp>>

\* run(): the first with-block.
RunBegin ==
  /\ pc = "init"
  /\ is_running' = TRUE
  /\ pc' = "loop"
  /\ UNCHANGED <<camera, closed, dirs, files, nOps, nRecv, nSent, stop_returned, lastOp>>

\* run(): the test of is_running at the head of the loop.
LoopTest ==
  /\ pc = "loop"
  /\ pc' = IF is_running THEN "recv" ELSE "exit"
  /\ UNCHANGED <<camera, closed, dirs, files, is_running, nOps, nRecv, nSent, stop_returned, lastOp>>

\* run(): socket.recv() returns msg and the loop body handles it.
Serve(msg, io) ==
  /\ pc = "recv"
  /\ nOps < MaxOps
  /\ \E s \in {run_body(World, msg, io)} :
       /\ SetWorld(s.w)
       /\ pc' = IF s.exc # "" THEN "dead" ELSE IF s.brk THEN "exit" ELSE "loop"
       /\ nRecv' = nRecv + 1
       /\ nSent' = nSent + Len(s.sent)
       /\ lastOp' = [who |-> "server", name |-> Verb(msg), args |-> msg, io |-> io,
                     pre |-> Pre(World), ret |-> None,
                     sent |-> s.sent, exc |-> s.exc, ev |-> s.ev]
  /\ nOps' = nOps + 1
  /\ UNCHANGED <<is_running, stop_returned>>

IoOutcomes == {"ok", "makedirs_fails", "open_fails"}

ServeStart == \E msg \in StartRequests, io \in IoOutcomes : Serve(msg, io)
ServeStop == \E msg \in Requests : Verb(msg) = "Stop" /\ Serve(msg, "ok")
ServeClose == \E msg \in Requests : Verb(msg) = "Close" /\ Serve(msg, "ok")
ServeResolution == \E msg \in Requests : Verb(msg) = "Resolution" /\ Serve(msg, "ok")
ServeFramerate == \E msg \in Requests : Verb(msg) = "Framerate" /\ Serve(msg, "ok")
ServeResetGains == \E msg \in Requests : Verb(msg) = "ResetGains" /\ Serve(msg, "ok")
ServeGetGains == \E msg \in Requests : Verb(msg) = "GetGains" /\ Serve(msg, "ok")
ServeSetGains == \E msg \in Requests : Verb(msg) = "SetGains" /\ Serve(msg, "ok")
ServeVFlip == \E msg \in Requests : Verb(msg) = "VFlip" /\ Serve(msg, "ok")
ServeHFlip == \E msg \in Requests : Verb(msg) = "HFlip" /\ Serve(msg, "ok")
ServeZoom == \E msg \in Requests : Verb(msg) = "Zoom" /\ Serve(msg, "ok")
ServeNotHandled == \E msg \in Requests : Len(msg) > 0 /\ Verb(msg) \notin Verbs /\ Serve(msg, "ok")
ServeEmpty == \E msg \in Requests : Len(msg) = 0 /\ Serve(msg, "ok")

\* ------------------------------------------------------------------------
\* Controller operations called by the program that owns the Controller
\* ------------------------------------------------------------------------

Call(name, args, result) ==
  /\ nOps < MaxOps
  /\ \E r \in {result} :
       /\ SetWorld(r.w)
       /\ lastOp' = [who |-> "owner", name |-> name, args |-> args,
                     io |-> IF name = "start_recording" THEN args[2] ELSE "ok",
                     pre |-> Pre(World), ret |-> r.ret,
                     sent |-> <<>>, exc |-> r.exc, ev |-> r.ev]
  /\ nOps' = nOps + 1
  /\ UNCHANGED <<is_running, pc, nRecv, nSent, stop_returned>>

CallGetter ==
  \/ Call("framerate", <<>>, get_framerate(World))
  \/ Call("resolution", <<>>, get_resolution(World))
  \/ Call("vflip", <<>>, get_vflip(World))
  \/ Call("hflip", <<>>, get_hflip(World))
  \/ Call("zoom", <<>>, get_zoom(World))
  \/ Call("get_gains", <<>>, get_gains(World))
  \/ Call("is_recording", <<>>, Ret(World, Some(is_recording(World)), <<>>))

CallSetFramerate == \E fps \in {FloatOf("1.5")} : Call("framerate=", <<fps>>, set_framerate(World, fps))
CallSetResolution == \E xy \in {<<640, 480>>} : Call("resolution=", <<xy>>, set_resolution(World, xy))
CallSetVFlip == \E b \in BOOLEAN : Call("vflip=", <<b>>, set_vflip(World, b))
CallSetHFlip == \E b \in BOOLEAN : Call("hflip=", <<b>>, set_hflip(World, b))
CallSetZoom ==
  \E z \in {<<0, 5000000, 10000000, 5000000>>, <<0, 0, 15000000, 10000000>>, <<0, 0, 10000000>>} :
    Call("zoom=", <<z>>, set_zoom(World, z))
CallSetGains == \E g \in {<<15000000, 12345678>>} : Call("set_gains", <<g>>, set_gains(World, g))
CallStartPreview ==
  \E g \in {None, Some(<<15000000, 12345678>>)} :
    Call("start_preview", <<g>>, start_preview(World, g, TRUE, TRUE))
CallResetGains == Call("reset_gains", <<>>, reset_gains(World))
CallStartRecording ==
  \E p \in {"run2"}, io \in IoOutcomes :
    Call("start_recording", <<p, io>>, start_recording(World, "rpicamera_video", 0, 1, Some(p), io))
CallStopRecording == Call("stop_recording", <<>>, stop_recording(World))
CallCleanup == Call("cleanup", <<>>, cleanup(World))
CallClose == Call("close", <<>>, close(World))

\* ------------------------------------------------------------------------
\* The Device on its own: automatic white balance
\* ------------------------------------------------------------------------

CameraAutoWhiteBalance ==
  /\ camera # None
  /\ camera[1].awb_mode = "auto"
  /\ \E g \in AutoGains : g # camera[1].awb_gains /\ camera' = Some([camera[1] EXCEPT !.awb_gains = g])
  /\ UNCHANGED <<closed, dirs, files, is_running, pc, nOps, nRecv, nSent, stop_returned, lastOp>>

Next ==
  \/ RunBegin
  \/ LoopTest
  \/ ServeStart
  \/ ServeStop
  \/ ServeClose
  \/ ServeResolution
  \/ ServeFramerate
  \/ ServeResetGains
  \/ ServeGetGains
  \/ ServeSetGains
  \/ ServeVFlip
  \/ ServeHFlip
  \/ ServeZoom
  \/ ServeNotHandled
  \/ ServeEmpty
  \/ CameraAutoWhiteBalance

\* The serving thread, its clients and the Device.
Spec == Init /\ [][Next]_vars

NextCall ==
  \/ CallGetter
  \/ CallSetFramerate
  \/ CallSetResolution
  \/ CallSetVFlip
  \/ CallSetHFlip
  \/ CallSetZoom
  \/ CallSetGains
  \/ CallStartPreview
  \/ CallResetGains
  \/ CallStartRecording
  \/ CallStopRecording
  \/ CallCleanup
  \/ CallClose
  \/ CameraAutoWhiteBalance

NextStop ==
  \/ StopRunning
  \/ RunBegin
  \/ LoopTest
  \/ ServeStart
  \/ ServeStop
  \/ ServeClose
  \/ ServeResolution
  \/ ServeFramerate
  \/ ServeResetGains
  \/ ServeGetGains
  \/ ServeSetGains
  \/ ServeVFlip
  \/ ServeHFlip
  \/ ServeZoom
  \/ ServeNotHandled
  \/ ServeEmpty
  \/ CameraAutoWhiteBalance

\* The same, with the owning program calling stop_running() from its own
\* thread at any moment, any number of times.
StopSpec == Init /\ [][NextStop]_vars

\* The Controller called directly, operation by operation, and the Device.
CallSpec == Init /\ [][NextCall]_vars

\* ------------------------------------------------------------------------
\* Properties
\* ------------------------------------------------------------------------

Has(ev, e) == \E i \in 1..Len(ev) : ev[i] = e
Count(ev, e) == Cardinality({i \in 1..Len(ev) : ev[i] = e})

\* The events that are calls or attribute writes on the Device.
DeviceEvents ==
  {"camera.start_recording", "camera.stop_recording", "camera.stop_preview", "camera.close",
   "camera.framerate=", "camera.resolution=", "camera.vflip=", "camera.hflip=",
   "camera.zoom=", "camera.awb_mode=", "camera.awb_gains=", "camera.exposure_mode="}
NoDeviceEvent(ev) == \A i \in 1..Len(ev) : ev[i] \notin DeviceEvents

ServedRequest(verb) == lastOp.who = "server" /\ lastOp.name = verb
Called(name) == lastOp.who = "owner" /\ lastOp.name = name
\* The step is an operation (a request served or a Controller call).
OpStep == nOps' = nOps + 1

\* Requests whose arguments do not fit the grammar of their verb.
MalformedRequests ==
  { <<Tok("Start"), Tok("Path")>>,
    <<Tok("Start"), KV("Experiment", "x"), KV("Path", "run2")>>,
    <<Tok("Resolution"), Tok("640")>>,
    <<Tok("Framerate"), Tok("fast")>>,
    <<Tok("SetGains"), Tok("1.5")>>,
    <<Tok("VFlip"), Tok("on")>>,
    <<Tok("HFlip")>>,
    <<Tok("Zoom"), Tok("0"), Tok("0"), Tok("1"), Tok("wide")>> }

\* C1: every request received by run() is answered by exactly one reply, sent
\* before the next request is received: the request served last sent one
\* reply, and at every point between two receives as many replies have been
\* sent as requests received.
C1_ExactlyOneReply ==
  /\ lastOp.who = "server" => Len(lastOp.sent) = 1
  /\ nSent = nRecv

\* C2: a request with malformed arguments is answered (by an error reply) and
\* does not end the serving loop.
C2_MalformedAnswered ==
  (lastOp.who = "server" /\ lastOp.args \in MalformedRequests)
    => /\ Len(lastOp.sent) = 1
       /\ lastOp.exc = ""
       /\ pc # "dead"

\* Start requests that fit the grammar.
WellFormedStarts ==
  {m \in StartRequests :
     \A i \in 2..Len(m) :
       /\ Len(m[i]) = 2
       /\ m[i][1] \in {"Experiment", "Recording"} => m[i][2] \in IntTokens}
HasPath(m) == \E i \in 2..Len(m) : Len(m[i]) = 2 /\ m[i][1] = "Path"
IoFailed(op) == op.exc \in {"OSError", "IOError"}

\* A first Start: the Device available and idle, the file system working.
FirstStartRepliesPath(op) ==
  (op.who = "server" /\ op.name = "Start" /\ op.args \in WellFormedStarts
     /\ op.pre.available /\ ~op.pre.recording /\ ~IoFailed(op))
    => (Len(op.sent) = 1 /\ op.sent[1].text # "")

\* A second Start, served right after a Start that was answered with a path.
SecondStartIgnored ==
  (/\ lastOp.who = "server" /\ lastOp.name = "Start"
   /\ Len(lastOp.sent) = 1 /\ lastOp.sent[1].text # ""
   /\ OpStep /\ lastOp'.who = "server" /\ lastOp'.name = "Start"
   /\ lastOp'.args \in WellFormedStarts)
    => /\ lastOp'.sent = <<Reply("", <<>>)>>
       /\ ~Has(lastOp'.ev, "camera.start_recording")
       /\ ~Has(lastOp'.ev, "open")
       /\ files' = files
       /\ camera' = camera

\* C3: with the Device available and idle, of two Start requests in a row the
\* first is answered with a non-empty recording directory and the second with
\* the empty string; the second starts no Device recording and writes no
\* parameter file.
C3_StartTwice ==
  /\ [](FirstStartRepliesPath(lastOp))
  /\ [][SecondStartIgnored]_vars

\* The part of C3 the code keeps: the same, for a first Start that carries a
\* Path token.
StartTwiceWithPath ==
  /\ []((lastOp.who = "server" /\ lastOp.name = "Start" /\ HasPath(lastOp.args))
          => FirstStartRepliesPath(lastOp))
  /\ [][SecondStartIgnored]_vars
StartTwiceWithPathSeen ==
  /\ ServedRequest("Start") /\ lastOp.pre.recording /\ nRecv >= 2
  /\ lastOp.sent = <<Reply("", <<>>)>>

\* C4: at most one recording session is active: an operation issues
\* Device.start_recording only when it finds the Device present and not
\* recording, and at most once, after any stop it issues itself; so two
\* Device recording starts are separated by a Device recording stop.
StartAfterStops(ev) ==
  \A i, j \in 1..Len(ev) :
    (ev[i] = "camera.start_recording" /\ ev[j] = "camera.stop_recording") => j < i
C4_OneSession ==
  [][(OpStep /\ Has(lastOp'.ev, "camera.start_recording"))
       => /\ camera # None
          /\ ~camera[1].recording
          /\ Count(lastOp'.ev, "camera.start_recording") = 1
          /\ StartAfterStops(lastOp'.ev)
          /\ camera'[1].recording]_vars
C4_Seen ==
  /\ Called("start_recording") /\ Has(lastOp.ev, "camera.start_recording")
  /\ nOps = 3 /\ is_recording(World)

\* C5: Stop is idempotent: a Stop request served while the Device is not
\* recording (idle, previewing only, absent) issues no Device call and leaves
\* the Controller as it was, and a Stop request is answered "Stopped" in
\* every state.
C5_StopIdempotent ==
  /\ [](ServedRequest("Stop") => (lastOp.sent = <<Reply("Stopped", <<>>)>> /\ lastOp.exc = ""))
  /\ [](ServedRequest("Stop") /\ ~lastOp.pre.recording => NoDeviceEvent(lastOp.ev))
  /\ [][(OpStep /\ lastOp'.who = "server" /\ lastOp'.name = "Stop" /\ ~is_recording(World))
          => (camera' = camera /\ closed' = closed /\ dirs' = dirs /\ files' = files)]_vars
C5_Seen ==
  /\ ServedRequest("Stop") /\ lastOp.pre.previewing /\ ~lastOp.pre.recording
  /\ nRecv >= 2 /\ lastOp.sent = <<Reply("Stopped", <<>>)>>

\* A value in [0,1], and a zoom rectangle of exactly four of them.
InUnitRange(v) == v # NaN /\ 0 <= v /\ v <= 10000000
ValidZoom(coords) == Len(coords) = 4 /\ \A i \in 1..4 : InUnitRange(coords[i])
\* The step serves a Zoom request whose tokens are all numbers.
ZoomStep ==
  /\ OpStep /\ lastOp'.who = "server" /\ lastOp'.name = "Zoom"
  /\ ZoomExc(lastOp'.args) = ""
ZoomApplied ==
  /\ lastOp'.sent = <<Reply("Done", <<>>)>>
  /\ IF ValidZoom(ZoomArgs(lastOp'.args))
     THEN camera' = Some([camera[1] EXCEPT !.zoom = ZoomArgs(lastOp'.args)])
     ELSE camera' = camera

\* C6: with the Device available, a zoom write changes the zoom rectangle if
\* and only if it carries exactly four values that all lie in [0,1], also
\* while recording; any other write leaves the rectangle unchanged, and the
\* Zoom request is answered "Done" either way.
C6_ZoomIffInRange ==
  [][(ZoomStep /\ camera # None) => ZoomApplied]_vars

\* The part of C6 the code keeps: the same, for values none of which is NaN.
ZoomIffInRangeNoNaN ==
  [][(ZoomStep /\ camera # None /\ \A i \in 1..Len(ZoomArgs(lastOp'.args)) :
                                     ZoomArgs(lastOp'.args)[i] # NaN) => ZoomApplied]_vars

WorldNext == [camera |-> camera', closed |-> closed', dirs |-> dirs', files |-> files']

\* The step calls the guarded setter `name`.
SetterStep(name) == OpStep /\ lastOp'.who = "owner" /\ lastOp'.name = name

\* C7: while the Device is recording, a write of framerate, resolution, vflip
\* or hflip leaves the value unchanged (the getter returns after the write
\* what it returned before) and does not raise; while not recording, Device
\* available, the write is applied and the getter returns the written value.
C7_GuardedSetters ==
  [][/\ SetterStep("framerate=") =>
          /\ lastOp'.exc = ""
          /\ is_recording(World) => (get_framerate(WorldNext).ret = get_framerate(World).ret
                                     /\ camera' = camera)
          /\ (camera # None /\ ~is_recording(World))
               => get_framerate(WorldNext).ret = Some(lastOp'.args[1])
     /\ SetterStep("resolution=") =>
          /\ lastOp'.exc = ""
          /\ is_recording(World) => (get_resolution(WorldNext).ret = get_resolution(World).ret
                                     /\ camera' = camera)
          /\ (camera # None /\ ~is_recording(World))
               => get_resolution(WorldNext).ret
                    = Some(Resolution(lastOp'.args[1][1], lastOp'.args[1][2]))
     /\ SetterStep("vflip=") =>
          /\ lastOp'.exc = ""
          /\ is_recording(World) => (get_vflip(WorldNext).ret = get_vflip(World).ret
                                     /\ camera' = camera)
          /\ (camera # None /\ ~is_recording(World))
               => get_vflip(WorldNext).ret = Some(lastOp'.args[1])
     /\ SetterStep("hflip=") =>
          /\ lastOp'.exc = ""
          /\ is_recording(World) => (get_hflip(WorldNext).ret = get_hflip(World).ret
                                     /\ camera' = camera)
          /\ (camera # None /\ ~is_recording(World))
               => get_hflip(WorldNext).ret = Some(lastOp'.args[1])]_vars
C7_Seen ==
  /\ Called("framerate=") /\ lastOp.pre.recording
  /\ camera[1].framerate # lastOp.args[1]

\* C8: a Close request is always answered "Closing", and then the serving
\* loop has ended: no later request is received, dispatched or answered.
C8_CloseEnds ==
  /\ [](ServedRequest("Close") => (lastOp.sent = <<Reply("Closing", <<>>)>> /\ pc = "exit"))
  /\ [][pc = "exit" => (pc' = "exit" /\ nRecv' = nRecv /\ nSent' = nSent /\ lastOp' = lastOp)]_vars
C8_Seen ==
  /\ ServedRequest("Close") /\ pc = "exit" /\ nRecv = 2 /\ lastOp.pre.recording

\* The request served last is a SetGains r b that reached the Device.
SetGainsServed ==
  /\ ServedRequest("SetGains") /\ lastOp.sent = <<Reply("Done", <<>>)>>
  /\ lastOp.pre.available
GainsSet == <<FloatArg(lastOp.args, 1), FloatArg(lastOp.args, 2)>>
GetGainsStep == OpStep /\ lastOp'.who = "server" /\ lastOp'.name = "GetGains"
\* The number a client reads in a reply field printed with six decimals.
Read6(n) == n * 10

\* C9 as stated: SetGains r b followed by GetGains returns exactly (r, b).
C9_GainsExact ==
  [][(SetGainsServed /\ GetGainsStep)
       => /\ Len(lastOp'.sent) = 1
          /\ Len(lastOp'.sent[1].vals) = 2
          /\ <<Read6(lastOp'.sent[1].vals[1]), Read6(lastOp'.sent[1].vals[2])>> = GainsSet]_vars

\* C9 as amended: with the Device available, SetGains r b followed by
\* GetGains (no gain-changing operation between) is answered with r and b,
\* in that order, each rounded to six decimals, in any state; the Controller
\* itself holds exactly (r, b), SetGains having switched white balance off.
C9_GainsRoundTrip ==
  /\ [](SetGainsServed => (get_gains(World).ret = Some(GainsSet)
                           /\ camera[1].awb_mode = "off"))
  /\ [][(SetGainsServed /\ GetGainsStep)
          => lastOp'.sent = <<Reply("{:.6f} {:.6f}", <<Fmt6(GainsSet[1]), Fmt6(GainsSet[2])>>)>>]_vars
C9_Seen ==
  /\ ServedRequest("GetGains") /\ lastOp.pre.recording
  /\ lastOp.sent = <<Reply("{:.6f} {:.6f}", <<1500000, 1234568>>)>>

\* C10: if Device construction fails the Controller is constructed with no
\* camera; from then on every Controller operation returns None (is_recording
\* returns False), makes no Device or file-system call and does not raise,
\* and the camera stays absent.
C10_AbsentDevice ==
  /\ []((lastOp.who = "owner" /\ ~lastOp.pre.available)
          => /\ lastOp.exc = ""
             /\ lastOp.ev = <<>>
             /\ lastOp.ret = (IF lastOp.name = "is_recording" THEN Some(FALSE) ELSE None)
             /\ camera = None)
  /\ [][camera = None => (camera' = None /\ dirs' = dirs /\ files' = files)]_vars
C10_Seen ==
  /\ Called("start_preview") /\ ~lastOp.pre.available
  /\ ~closed /\ nOps = 3

\* Requests of the eleven verbs whose arguments fit the grammar.
WellFormedRequests == {m \in Requests \ MalformedRequests : Verb(m) \in Verbs}

\* The reply a well-formed request gets with no Device: "" for Start, the
\* verb's usual reply for the others.
RepliedWithoutDevice(op) ==
  /\ Len(op.sent) = 1
  /\ op.exc = ""
  /\ op.name = "Start" => op.sent[1].text = ""

\* C11: with the Device unavailable (never constructed, or closed), every
\* well-formed request of every verb is answered (Start with the empty
\* string) and does not end the serving loop by an exception.
C11_UnavailableStillReplies ==
  (lastOp.who = "server" /\ lastOp.args \in WellFormedRequests /\ ~lastOp.pre.available)
    => (RepliedWithoutDevice(lastOp) /\ pc # "dead")

\* The part of C11 the code keeps: the same, for every verb but GetGains.
UnavailableRepliesButGetGains ==
  (lastOp.who = "server" /\ lastOp.args \in WellFormedRequests /\ ~lastOp.pre.available
     /\ lastOp.name # "GetGains")
    => (RepliedWithoutDevice(lastOp) /\ pc # "dead")
UnavailableRepliesButGetGainsSeen ==
  /\ ServedRequest("Start") /\ ~lastOp.pre.available /\ nRecv = 3
  /\ lastOp.sent = <<Reply("", <<>>)>>

\* The directory creation or the parameter-file write of the operation failed.
IoFails(op) ==
  \/ op.io = "makedirs_fails" /\ Has(op.ev, "os.makedirs")
  \/ op.io = "open_fails" /\ Has(op.ev, "open")

\* C12: a Start during which creating the recording directory or writing the
\* parameter file fails is answered with the empty path, starts no Device
\* recording, and leaves the serving loop running.
C12_IoFailureReported ==
  (ServedRequest("Start") /\ IoFails(lastOp))
    => /\ lastOp.sent = <<Reply("", <<>>)>>
       /\ ~Has(lastOp.ev, "camera.start_recording")
       /\ ~is_recording(World)
       /\ pc # "dead"

\* The part of C12 the code keeps: no Device recording is started.
IoFailureStartsNoRecording ==
  (ServedRequest("Start") /\ IoFails(lastOp))
    => (~Has(lastOp.ev, "camera.start_recording") /\ ~is_recording(World))
IoFailureStartsNoRecordingSeen ==
  /\ ServedRequest("Start") /\ IoFails(lastOp) /\ lastOp.io = "open_fails"
  /\ nRecv = 3 /\ files # {}

\* In ev, an a happens, and every b happens after it.
Before(ev, a, b) ==
  /\ Has(ev, a)
  /\ \A i, j \in 1..Len(ev) : (ev[i] = a /\ ev[j] = b) => i < j

\* C13: a ResetGains request is answered "Done (but wait at least 2 seconds)"
\* before the gain-reset callback is invoked, and a further request is received
\* only after that callback has returned; for every other verb with a
\* callback, the callback is invoked and returns before the reply is sent.
C13_ReplyOrder ==
  /\ [](ServedRequest("ResetGains")
          => /\ lastOp.sent = <<Reply("Done (but wait at least 2 seconds)", <<>>)>>
             /\ Before(lastOp.ev, "send", "callback")
             /\ Has(lastOp.ev, "callback"))
  /\ [][(ServedRequest("ResetGains") /\ nRecv' = nRecv + 1)
          => Before(lastOp.ev, "callback", "return") /\ Has(lastOp.ev, "return")]_vars
  /\ []((lastOp.who = "server" /\ lastOp.name \in Verbs \ {"ResetGains"} /\ lastOp.sent # <<>>)
          => /\ Has(lastOp.ev, "return")
             /\ Before(lastOp.ev, "callback", "return")
             /\ Before(lastOp.ev, "return", "send"))
C13_Seen ==
  /\ ServedRequest("ResetGains") /\ lastOp.pre.recording /\ nRecv >= 2
  /\ Has(lastOp.ev, "camera.stop_recording") /\ Has(lastOp.ev, "return") /\ pc = "loop"

\* Start requests, the ids they carry or default to, and the recording
\* directory each is to get under the base path /rec.
StartScenarios ==
  { [msg |-> <<Tok("Start"), KV("Experiment", "2"), KV("Recording", "3"),
               KV("Path", "/data/20240101_1200")>>,
     experiment |-> 2, recording |-> 3,
     dir |-> "/rec/20240101_1200_experiment_2_recording_3",
     param_file |-> "/rec/20240101_1200_experiment_2_recording_3/rpicamera_video_params.json"],
    [msg |-> <<Tok("Start"), KV("Path", "run2")>>,
     experiment |-> 0, recording |-> 1,
     dir |-> "/rec/run2_experiment_0_recording_1",
     param_file |-> "/rec/run2_experiment_0_recording_1/rpicamera_video_params.json"] }

\* The Start served last started a session.
StartSucceeded ==
  ServedRequest("Start") /\ Len(lastOp.sent) = 1 /\ lastOp.sent[1].text # ""

\* C14: a successful Start with experiment E, recording R and path P is
\* answered with <base path>/<last component of P>_experiment_<E>_recording_<R>
\* (E = 0 and R = 1 when the tokens are absent), and the parameter file of
\* the session then holds rec_path equal to that directory, experiment = E and
\* recording = R.
C14_RecordingDirectory ==
  StartSucceeded =>
    \E x \in StartScenarios :
      /\ x.msg = lastOp.args
      /\ lastOp.sent[1].text = x.dir
      /\ x.dir \in dirs
      /\ \E f \in files :
           /\ f[1] = x.param_file
           /\ f[2].rec_path = x.dir
           /\ f[2].experiment = x.experiment
           /\ f[2].recording = x.recording
      /\ \A f \in files : f[1] = x.param_file => f[2].rec_path = x.dir
C14_Seen ==
  /\ StartSucceeded /\ lastOp.sent[1].text = "/rec/20240101_1200_experiment_2_recording_3"
  /\ nRecv = 3 /\ Cardinality(files) = 2

\* The operation wrote its parameter snapshot once, and before it issued
\* Device.start_recording; an operation that starts no session writes none.
SnapshotThenRecording(op) ==
  /\ Has(op.ev, "camera.start_recording")
       => (Count(op.ev, "json.dump") = 1 /\ Before(op.ev, "json.dump", "camera.start_recording"))
  /\ Has(op.ev, "json.dump") => (op.name = "Start" /\ Has(op.ev, "camera.start_recording"))

\* The step writes the parameter file of a recording directory whose
\* parameter file is on disk already.
SnapshotWrittenAgain ==
  /\ OpStep /\ Has(lastOp'.ev, "json.dump")
  /\ \E f \in files : f[2].rec_path = lastOp'.sent[1].text

\* C15: the parameter snapshot of a session is written exactly once, during
\* start_recording and before Device.start_recording is issued, and no later
\* operation writes it again or changes it, a later Start with the same ids
\* and path after a Stop included.
C15_SnapshotWrittenOnce ==
  /\ [](SnapshotThenRecording(lastOp))
  /\ [][~SnapshotWrittenAgain /\ (\A f \in files : f \in files')]_vars

\* The part of C15 the code keeps: once per session, before the Device call.
SnapshotBeforeRecording == SnapshotThenRecording(lastOp)
SnapshotBeforeRecordingSeen ==
  /\ StartSucceeded /\ Has(lastOp.ev, "json.dump") /\ nRecv = 3
  /\ Cardinality(files) = 1 /\ ~Has(lastOp.ev, "os.makedirs")

\* The last operation was Controller.close or Controller.cleanup.
TeardownCalled == lastOp.who = "owner" /\ lastOp.name \in {"cleanup", "close"}

\* The Device calls of a teardown that finds the Device open, in order.
TeardownCalls(pre) ==
  (IF pre.recording THEN <<"camera.stop_recording">> ELSE <<>>)
    \o (IF pre.previewing THEN <<"camera.stop_preview">> ELSE <<>>)
    \o <<"camera.close">>

\* C16: close/cleanup, from idle, previewing, recording, or recording while
\* previewing, stops the recording, then the preview, then closes the Device
\* and releases the reference; a second or later call makes no Device call;
\* no call raises.
C16_TeardownOrder ==
  /\ [](TeardownCalled
          => /\ lastOp.exc = ""
             /\ camera = None
             /\ closed
             /\ lastOp.ev = (IF lastOp.pre.available THEN TeardownCalls(lastOp.pre) ELSE <<>>))
  /\ [][(closed /\ OpStep /\ lastOp'.name \in {"cleanup", "close"})
          => (lastOp'.ev = <<>> /\ lastOp'.exc = "" /\ camera' = None /\ closed')]_vars
C16_Seen ==
  /\ TeardownCalled /\ lastOp.pre.recording /\ lastOp.pre.previewing
  /\ lastOp.ev = <<"camera.stop_recording", "camera.stop_preview", "camera.close">>
  /\ camera = None /\ closed
\* A later call, after a teardown that ended a recording.
TeardownAgainSeen ==
  /\ TeardownCalled /\ ~lastOp.pre.available /\ closed /\ dirs # {} /\ nOps = 3

\* C17: reset_gains called while the Device is previewing stops the preview,
\* waits the settle delay and runs start_preview again to its end, so that it
\* returns with the Device previewing and white balance and exposure locked
\* (mode 'off'); called while not previewing it starts no preview.
C17_ResetGainsRestartsPreview ==
  (Called("reset_gains") /\ lastOp.pre.available)
    => IF lastOp.pre.previewing
       THEN /\ Before(lastOp.ev, "camera.stop_preview", "sleep")
            /\ lastOp.exc = ""
            /\ camera # None
            /\ camera[1].previewing
            /\ camera[1].awb_mode = "off"
            /\ camera[1].exposure_mode = "off"
       ELSE /\ lastOp.exc = ""
            /\ camera # None
            /\ ~camera[1].previewing

\* The part of C17 the code keeps: the preview is stopped and the delay
\* waited; with no preview nothing is started.
ResetGainsStopsPreview ==
  (Called("reset_gains") /\ lastOp.pre.available)
    => IF lastOp.pre.previewing
       THEN Before(lastOp.ev, "camera.stop_preview", "sleep") /\ ~camera[1].previewing
       ELSE lastOp.exc = "" /\ ~camera[1].previewing /\ ~Has(lastOp.ev, "camera.stop_preview")
ResetGainsStopsPreviewSeen ==
  /\ Called("reset_gains") /\ lastOp.pre.previewing /\ lastOp.exc = "NameError"
  /\ ~camera[1].previewing /\ camera[1].awb_mode = "auto"

\* C18: reset_gains called while the Device is recording stops the Device
\* recording before it touches the preview; so a ResetGains request ends a
\* recording started by Start, with no Stop or Close, and is_recording is
\* false after it.
C18_ResetGainsEndsRecording ==
  (ServedRequest("ResetGains") /\ lastOp.pre.recording)
    => /\ Count(lastOp.ev, "camera.stop_recording") = 1
       /\ Before(lastOp.ev, "callback", "camera.stop_recording")
       /\ Before(lastOp.ev, "camera.stop_recording", "camera.stop_preview")
       /\ Before(lastOp.ev, "camera.stop_recording", "camera.awb_mode=")
       /\ lastOp.pre.previewing => Has(lastOp.ev, "camera.stop_preview")
       /\ ~is_recording(World)
C18_Seen ==
  /\ ServedRequest("ResetGains") /\ lastOp.pre.recording /\ lastOp.pre.previewing
  /\ nRecv = 2 /\ dirs # {} /\ ~is_recording(World)

\* Requests received since stop_running() first returned.
ReceivedSinceStop == nRecv - stop_returned[1].nRecv

\* C19: in every interleaving of stop_running() with run(), once
\* stop_running() has returned the serving loop receives at most one further
\* request, and at its next test of is_running it ends (no Close needed);
\* also when stop_running() returns before run() has executed its first
\* statement.
C19_StopEndsLoop ==
  /\ [](stop_returned # None => ReceivedSinceStop <= 1)
  /\ [][(stop_returned # None /\ ReceivedSinceStop = 1 /\ pc = "loop") => pc' # "recv"]_vars

\* The part of C19 the code keeps: the same, for a stop_running() that
\* returns after run() has set is_running.
StopAfterBeginEndsLoop ==
  /\ []((stop_returned # None /\ stop_returned[1].pc # "init") => ReceivedSinceStop <= 1)
  /\ [][(stop_returned # None /\ stop_returned[1].pc # "init" /\ pc = "loop" /\ ~is_running)
          => pc' # "recv"]_vars
StopAfterBeginEndsLoopSeen ==
  /\ stop_returned # None /\ stop_returned[1].pc = "recv" /\ stop_returned[1].nRecv = 1
  /\ pc = "exit" /\ nRecv = 2 /\ lastOp.name # "Close"

\* C20: in every reachable Controller state closed = True implies that the
\* camera is None; closed never goes back to False and a camera that is None
\* never becomes present again; so an operation called after cleanup makes
\* no Device call.
C20_ClosedMeansNoCamera ==
  /\ [](closed => camera = None)
  /\ [][closed => closed']_vars
  /\ [][camera = None => camera' = None]_vars
  /\ [][(closed /\ OpStep) => (NoDeviceEvent(lastOp'.ev) /\ lastOp'.exc = "")]_vars
C20_Seen ==
  /\ closed /\ camera = None /\ dirs # {} /\ nOps = 3
  /\ Called("start_recording") /\ lastOp.ret = None

====
